---------------------------- MODULE Spec2Model ----------------------------
(***************************************************************************)
(* A model of _utils/jekyllify.py: the script that turns a project folder  *)
(* under _projects into a Jekyll page by quarantining its extra .md/.html  *)
(* files (underscore prefix) and prepending YAML front matter to index.md. *)
(*                                                                         *)
(* Text is modelled character by character: a string is a sequence of      *)
(* one-character strings, a file is a record with its bytes.  The file     *)
(* system is the POSIX one the script is run on: os.linesep is "\n" and    *)
(* os.rename silently replaces an existing target.                         *)
(***************************************************************************)
EXTENDS Naturals, Sequences, FiniteSets

(***************************************************************************)
(* Bounds of the model.                                                    *)
(***************************************************************************)
\* pieces an initial index.md is built from
MaxPieces == 2
\* extra .md/.html files a project folder holds initially
MaxFiles == 2
\* runs of the script in one behaviour
MaxRuns == 2
\* characters of a stem handed to the label deriver on its own
MaxStemLen == 4

(***************************************************************************)
(* Strings.                                                                *)
(***************************************************************************)
RECURSIVE Cat(_)
\* ''.join(ss) / s1 + s2 + ...
Cat(ss) == IF ss = <<>> THEN <<>> ELSE Head(ss) \o Cat(Tail(ss))

\* s.startswith(p)
StartsWith(s, p) == Len(s) >= Len(p) /\ SubSeq(s, 1, Len(p)) = p

\* s[i:] for a 1-based i
From(s, i) == SubSeq(s, i, Len(s))

\* permutations of a finite set, as sequences: the orders a directory
\* listing (glob, iterdir) may come in
Orders(S) == {o \in [1..Cardinality(S) -> S] : \A i, j \in 1..Cardinality(S) : o[i] = o[j] => i = j}

\* all sequences over S of length at most n
SeqsUpTo(S, n) == UNION {[1..k -> S] : k \in 0..n}

Digits == {"0", "1", "2", "3", "4", "5", "6", "7", "8", "9"}
\* what str.strip() removes
Whitespace == {" ", "\t", "\n", "\r"}
Lower == <<"a","b","c","d","e","f","g","h","i","j","k","l","m","n","o","p","q","r","s","t","u","v","w","x","y","z">>
Upper == <<"A","B","C","D","E","F","G","H","I","J","K","L","M","N","O","P","Q","R","S","T","U","V","W","X","Y","Z">>

\* c.upper() for one character
UpperChar(c) == IF \E i \in 1..Len(Lower) : Lower[i] = c THEN Upper[CHOOSE i \in 1..Len(Lower) : Lower[i] = c] ELSE c

\* What open(path, "r").read() returns for the bytes of a file: universal
\* newlines, "\r\n" and a lone "\r" both read as "\n".
Translate(bytes) ==
    LET kept == SelectSeq([i \in 1..Len(bytes) |-> i],
                          LAMBDA i : ~(bytes[i] = "\n" /\ i > 1 /\ bytes[i - 1] = "\r"))
    IN  [k \in 1..Len(kept) |-> IF bytes[kept[k]] = "\r" THEN "\n" ELSE bytes[kept[k]]]

\* The bytes of a file opened "r+" that held old, after seek(0, 0) and
\* write(text): the text overwrites from the start, the file is not truncated.
\* Written "\n" stays "\n" (os.linesep).
OverwriteFromStart(old, text) ==
    text \o (IF Len(old) > Len(text) THEN From(old, Len(text) + 1) ELSE <<>>)

\* s.replace(a, b) for single characters
ReplaceChar(s, a, b) == [i \in 1..Len(s) |-> IF s[i] = a THEN b ELSE s[i]]

RECURSIVE LStrip(_)
LStrip(s) == IF s # <<>> /\ Head(s) \in Whitespace THEN LStrip(Tail(s)) ELSE s

RECURSIVE RStrip(_)
RStrip(s) == IF s # <<>> /\ s[Len(s)] \in Whitespace THEN RStrip(SubSeq(s, 1, Len(s) - 1)) ELSE s

\* s.strip()
Strip(s) == RStrip(LStrip(s))

RECURSIVE StripLeadingDigits(_)
\* re.sub("^[\d]*", "", s)
StripLeadingDigits(s) == IF s # <<>> /\ Head(s) \in Digits THEN StripLeadingDigits(Tail(s)) ELSE s

RECURSIVE SplitOn(_, _)
\* s.split(c): the pieces between occurrences of c, empty ones kept
SplitOn(s, c) ==
    IF \A i \in 1..Len(s) : s[i] # c THEN <<s>>
    ELSE LET i == CHOOSE k \in 1..Len(s) : s[k] = c /\ \A j \in 1..(k - 1) : s[j] # c
         IN  <<SubSeq(s, 1, i - 1)>> \o SplitOn(From(s, i + 1), c)

RECURSIVE JoinWith(_, _)
\* c.join(ws)
JoinWith(ws, c) ==
    IF ws = <<>> THEN <<>>
    ELSE IF Len(ws) = 1 THEN ws[1]
    ELSE ws[1] \o <<c>> \o JoinWith(Tail(ws), c)

RECURSIVE ReadLines(_)
\* f.readlines() on text: each line with its "\n", the last maybe without
ReadLines(text) ==
    IF text = <<>> THEN <<>>
    ELSE IF \A i \in 1..Len(text) : text[i] # "\n" THEN <<text>>
    ELSE LET i == CHOOSE k \in 1..Len(text) : text[k] = "\n" /\ \A j \in 1..(k - 1) : text[j] # "\n"
         IN  <<SubSeq(text, 1, i)>> \o ReadLines(From(text, i + 1))

(***************************************************************************)
(* The titlecase package (imported, not part of the repository): words     *)
(* are split on single spaces and joined by single spaces again, so        *)
(* whitespace stays as it is; a small connector word stays lower case      *)
(* unless it opens or closes the text; every other word gets its first     *)
(* letter capitalised.  Inputs of the model are lower case.                *)
(***************************************************************************)
SmallWords == {<<"a">>, <<"a","n">>, <<"a","n","d">>, <<"a","s">>, <<"a","t">>, <<"i","n">>, <<"o","f">>, <<"o","n">>, <<"o","r">>, <<"t","o">>}

CapFirst(w) == IF w = <<>> THEN w ELSE <<UpperChar(Head(w))>> \o Tail(w)

titlecase(text) ==
    LET words == SplitOn(text, " ")
        n == Len(words)
        tc == [i \in 1..n |->
                 IF words[i] \in SmallWords /\ i # 1 /\ i # n THEN words[i] ELSE CapFirst(words[i])]
    IN  JoinWith(tc, " ")

(***************************************************************************)
(* generate_label_from_filename                                            *)
(***************************************************************************)
generate_label_from_filename(stem) ==
    LET replaced == ReplaceChar(ReplaceChar(stem, "_", " "), "-", " ")
        stripped == Strip(replaced)
        nodigits == StripLeadingDigits(stripped)
    IN  titlecase(nodigits)

(***************************************************************************)
(* The file system under PROJECTS_DIR.                                     *)
(*                                                                         *)
(* A project folder is a record: index (index.md), authors (authors.txt),  *)
(* title (title.txt), each a file record, and files, the other .md/.html   *)
(* entries directly inside it.  An entry of files has a name (stem, ext)   *)
(* and orig, the name it had initially (which content it carries).         *)
(***************************************************************************)
NoFile == [exists |-> FALSE, bytes |-> <<>>]
File(bytes) == [exists |-> TRUE, bytes |-> bytes]

MD == <<"m","d">>
HTML == <<"h","t","m","l">>
Name(stem, ext) == [stem |-> stem, ext |-> ext]
\* Path.name
FileName(n) == n.stem \o <<".">> \o n.ext
IndexStem == <<"i","n","d","e","x">>

Entry(n) == [name |-> n, orig |-> n]
Names(d) == {f.name : f \in d.files}

VARIABLES
    world,              \* [names of the folders under PROJECTS_DIR -> folder]
    pc,                 \* where the script is: "idle", "loop", "quarantine"
    outcome,            \* how the last run ended, or "running"
    project,            \* args.project of the current run
    dirs_to_jekyllify,  \* the folders the for loop of __main__ has still to visit
    dir,                \* the folder jekyllify is working on
    source_files,       \* what is left of the loop of prepend_underscores_to_tab_sources
    runs,               \* runs of the script started so far
    orig,               \* the file system initially
    start,              \* the file system when the current run started
    after,              \* [folder -> its state right after jekyllify wrote its index.md]
    tabs,               \* [folder -> the tab entries written into its index.md]
    calls,              \* [folder -> completed calls of prepend_underscores_to_tab_sources]
    written,            \* [folder -> the run in which jekyllify wrote its index.md, or 0]
    stem,               \* the label deriver on its own: its input
    label               \* and its result

vars == <<world, pc, outcome, project, dirs_to_jekyllify, dir, source_files, runs,
          orig, start, after, tabs, calls, written, stem, label>>

(***************************************************************************)
(* can_process_dir                                                         *)
(***************************************************************************)
FrontMatterStart == <<"-","-","-","\n">>

\* "---\n" stands at position i of s
MarkerAt(s, i) ==
    /\ i + 3 <= Len(s)
    /\ s[i] = "-" /\ s[i + 1] = "-" /\ s[i + 2] = "-" /\ s[i + 3] = "\n"

\* re.search("^---\n((.|\n)*|\n)---\n", content): the content starts with
\* "---\n" and "---\n" occurs again somewhere after it.
HasFrontMatter(content) ==
    LET text == content
    IN  /\ MarkerAt(text, 1)
        /\ \E i \in 5..Len(text) : MarkerAt(text, i)

\* the FileNotFoundErrors the script raises, by their messages
IndexMissing == "FileNotFoundError: index.md missing from project folder"
AuthorsMissing == "FileNotFoundError: authors.txt missing from project folder"
NoDirectory == "FileNotFoundError: No directory named"

\* can_process_dir, had it forgotten to raise for a missing authors.txt
can_process_dir_silent(d, raise_exception) ==
    IF ~d.index.exists
    THEN IF raise_exception THEN IndexMissing ELSE "False"
    ELSE IF HasFrontMatter(Translate(d.index.bytes)) THEN "False"
    ELSE "True"

\* can_process_dir, had it looked for both files before reading index.md
can_process_dir_files_first(d, raise_exception) ==
    IF ~d.index.exists
    THEN IF raise_exception THEN IndexMissing ELSE "False"
    ELSE IF ~d.authors.exists
    THEN IF raise_exception THEN AuthorsMissing ELSE "False"
    ELSE IF HasFrontMatter(Translate(d.index.bytes)) THEN "False"
    ELSE "True"

\* The result of can_process_dir on folder d: "True", "False", or the
\* exception it raises.
can_process_dir(d, raise_exception) ==
    IF ~d.index.exists
    THEN IF raise_exception THEN IndexMissing ELSE "False"
    ELSE IF HasFrontMatter(Translate(d.index.bytes)) THEN "False"
    ELSE IF ~d.authors.exists
    THEN IF raise_exception THEN AuthorsMissing ELSE "False"
    ELSE "True"

(***************************************************************************)
(* get_project_dirs                                                        *)
(***************************************************************************)
NoProject == [given |-> FALSE, name |-> <<>>]
Project(name) == [given |-> TRUE, name |-> name]

\* The lists get_project_dirs may return (iterdir gives no order), or {} when
\* it raises FileNotFoundError for a named folder that does not exist.
get_project_dirs(w, p) ==
    IF p.given
    THEN IF p.name \in DOMAIN w THEN {<<p.name>>} ELSE {}
    ELSE Orders({n \in DOMAIN w : n[1] # "_"})

(***************************************************************************)
(* get_tab_source_files                                                    *)
(***************************************************************************)
\* the names matched by dir.glob("*." + ext), index.md being d.index
Glob(d, ext) == {n \in Names(d) : n.ext = ext}

\* The lists get_tab_source_files may return: the .md files, then the .html
\* files, each group in directory order, index.md and index.html removed.
get_tab_source_files(d) ==
    {m \o h : m \in Orders(Glob(d, MD) \ {Name(IndexStem, MD)}),
              h \in Orders(Glob(d, HTML) \ {Name(IndexStem, HTML)})}

(***************************************************************************)
(* get_random_string                                                       *)
(***************************************************************************)
IdLen == 8
\* a sample of ascii_lowercase
AsciiLowercase == {"x", "y"}
\* A sample of what get_random_string(len) may return.
get_random_string(len) == {[i \in 1..len |-> c] : c \in AsciiLowercase}

(***************************************************************************)
(* The front matter.                                                       *)
(***************************************************************************)
generate_title_yaml(name, d) ==
    LET read == IF d.title.exists THEN Translate(d.title.bytes) ELSE <<>>
        title == IF read # <<>> THEN read ELSE generate_label_from_filename(name)
    IN  <<"t","i","t","l","e",":"," ">> \o title \o <<"\n">>

RECURSIVE AuthorLines(_)
AuthorLines(lines) ==
    IF lines = <<>> THEN <<>>
    ELSE LET author == Strip(Head(lines))
         IN  (IF author # <<>> THEN <<"-"," ">> \o author \o <<"\n">> ELSE <<>>)
             \o AuthorLines(Tail(lines))

generate_authors_yaml(d) ==
    <<"a","u","t","h","o","r","s",":","\n">> \o AuthorLines(ReadLines(Translate(d.authors.bytes)))

\* The tab entries generate_tabs_yaml builds for the listing files, ids being
\* the random names drawn.
TabEntries(files, ids) ==
    [i \in 1..Len(files) |->
        [name |-> ids[i], type |-> files[i].ext, source |-> FileName(files[i]),
         label |-> generate_label_from_filename(files[i].stem)]]

TabYaml(t) ==
    Cat(<< <<"-"," ","{","\n">>,
           <<" "," ","n","a","m","e",":"," ">>, t.name, <<",","\n">>,
           <<" "," ","t","y","p","e",":"," ">>, t.type, <<",","\n">>,
           <<" "," ","s","o","u","r","c","e",":"," ">>, t.source, <<",","\n">>,
           <<" "," ","l","a","b","e","l",":"," ">>, t.label, <<"\n">>,
           <<" "," ","}","\n">> >>)

generate_tabs_yaml(entries) ==
    <<"t","a","b","s",":","\n">> \o Cat([i \in 1..Len(entries) |-> TabYaml(entries[i])])

\* the closing marker, had its line not been ended
FrontMatterEndUnterminated == <<"-","-","-">>

FrontMatterEnd == <<"-","-","-","\n","\n">>

\* front_matter of jekyllify for the folder d called name, with the given tab entries
FrontMatter(name, d, entries) ==
    Cat(<< FrontMatterStart,
           <<"l","a","y","o","u","t",":"," ","p","r","o","j","e","c","t","\n">>,
           generate_title_yaml(name, d),
           generate_authors_yaml(d),
           generate_tabs_yaml(entries),
           FrontMatterEnd >>)

(***************************************************************************)
(* prepend_underscores_to_tab_sources: one turn of its loop                *)
(***************************************************************************)
\* the test of the stem, had it never found an underscore
NeverHasUnderscore(n) == FALSE

\* file.stem[0] == "_"
HasUnderscore(n) == n.stem[1] = "_"

\* file.with_stem("_" + file.stem)
WithUnderscore(n) == Name(<<"_">> \o n.stem, n.ext)

\* file.rename(target) in folder d: the entry takes the target's name and
\* replaces whatever held it.
Rename(d, n, target) ==
    [d EXCEPT !.files = {f \in @ : f.name # n /\ f.name # target}
                         \cup {[name |-> target, orig |-> f.orig] : f \in {g \in @ : g.name = n}}]

\* the body of the loop, had it renamed every file
QuarantineEvery(d, n) == Rename(d, n, WithUnderscore(n))

\* the body of the loop for file n
QuarantineOne(d, n) == IF ~HasUnderscore(n) THEN Rename(d, n, WithUnderscore(n)) ELSE d

(***************************************************************************)
(* Initial file systems.                                                   *)
(***************************************************************************)
P == <<"p">>
Q == <<"0","3","_","q">>
T == <<"_","t">>
\* the folder names the model uses
DirNames == {P, Q, T}
\* a name no folder has, for --project
Missing == <<"z">>

Folder(index, authors, title, names) ==
    [index |-> index, authors |-> authors, title |-> title, files |-> {Entry(n) : n \in names}]

\* what an initial index.md is built from
Pieces == {FrontMatterStart, <<"-","-","-","\r","\n">>, <<"H">>}
IndexFiles == {NoFile} \cup {File(Cat(ps)) : ps \in SeqsUpTo(Pieces, MaxPieces)}
AuthorsFiles == {NoFile, File(<<"A","\n","B","\n">>), File(<<" ","\n","A","\r","\n">>)}
TitleFiles == {NoFile, File(<<>>), File(<<"T">>)}

A_md == Name(<<"a">>, MD)
FileNames ==
    {A_md, Name(<<"_","a">>, MD), Name(<<"0","1","_","i","n","t","r","o">>, MD),
     Name(<<"b">>, HTML), Name(IndexStem, HTML)}

\* one folder, every index.md, authors.txt and title.txt
ContentWorlds ==
    {[n \in {P} |-> Folder(i, a, t, {A_md})] : i \in IndexFiles, a \in AuthorsFiles, t \in TitleFiles}

\* one folder, every set of extra files
FileWorlds ==
    {[n \in {Q} |-> Folder(File(<<"H">>), File(<<"A","\n">>), NoFile, S)] :
        S \in {S \in SUBSET FileNames : Cardinality(S) <= MaxFiles}}

\* eligible, without index.md, without authors.txt, already processed
SmallFolders ==
    {Folder(File(<<"H">>), File(<<"A","\n">>), NoFile, {A_md}),
     Folder(NoFile, File(<<"A","\n">>), NoFile, {A_md}),
     Folder(File(<<"H">>), NoFile, NoFile, {A_md}),
     Folder(File(FrontMatterStart \o FrontMatterStart), File(<<"A","\n">>), NoFile, {A_md})}

\* three folders, one of them skipped by its underscore
ManyWorlds == [DirNames -> SmallFolders]

Init ==
    /\ world \in ContentWorlds \cup FileWorlds \cup ManyWorlds
    /\ pc = "idle"
    /\ outcome = "none"
    /\ project = NoProject
    /\ dirs_to_jekyllify = <<>>
    /\ dir = <<>>
    /\ source_files = <<>>
    /\ runs = 0
    /\ orig = world
    /\ start = world
    /\ after = world
    /\ tabs = [n \in DOMAIN world |-> <<>>]
    /\ calls = [n \in DOMAIN world |-> 0]
    /\ written = [n \in DOMAIN world |-> 0]
    /\ stem = <<>>
    /\ label = <<>>

(***************************************************************************)
(* __main__: parse the arguments, resolve the folders, filter them.        *)
(***************************************************************************)
Raises(r) == r \notin {"True", "False"}

\* raise_exception, had __main__ passed True in both modes
RaiseAlways(p) == TRUE

\* the raise_exception __main__ passes: True for a named folder only
RaiseException(p) == p.given

Start(p) ==
    /\ pc = "idle"
    /\ runs < MaxRuns
    /\ runs' = runs + 1
    /\ project' = p
    /\ start' = world
    /\ IF get_project_dirs(world, p) = {}
       THEN /\ outcome' = NoDirectory
            /\ pc' = "idle"
            /\ dirs_to_jekyllify' = <<>>
       ELSE \E ds \in get_project_dirs(world, p) :
              LET raise == RaiseException(p)
                  result == [i \in 1..Len(ds) |-> can_process_dir(world[ds[i]], raise)]
              IN  IF \E i \in 1..Len(ds) : Raises(result[i])
                  THEN /\ outcome' = result[CHOOSE i \in 1..Len(ds) : Raises(result[i])]
                       /\ pc' = "idle"
                       /\ dirs_to_jekyllify' = <<>>
                  ELSE /\ outcome' = "running"
                       /\ pc' = "loop"
                       /\ dirs_to_jekyllify' = SelectSeq(ds, LAMBDA n : can_process_dir(world[n], raise) = "True")
    /\ UNCHANGED <<world, dir, source_files, orig, after, tabs, calls, written, stem, label>>

(***************************************************************************)
(* jekyllify                                                               *)
(***************************************************************************)
\* jekyllify(dir) is called and prepend_underscores_to_tab_sources lists the files
Jekyllify ==
    /\ pc = "loop"
    /\ dirs_to_jekyllify # <<>>
    /\ dir' = Head(dirs_to_jekyllify)
    /\ dirs_to_jekyllify' = Tail(dirs_to_jekyllify)
    /\ \E files \in get_tab_source_files(world[Head(dirs_to_jekyllify)]) :
          /\ source_files' = files
          /\ calls' = IF files = <<>> THEN [calls EXCEPT ![dir'] = @ + 1] ELSE calls
    /\ pc' = "quarantine"
    /\ UNCHANGED <<world, outcome, project, runs, orig, start, after, tabs, written, stem, label>>

\* one turn of the loop of prepend_underscores_to_tab_sources
RenameNext ==
    /\ pc = "quarantine"
    /\ source_files # <<>>
    /\ world' = [world EXCEPT ![dir] = QuarantineOne(@, Head(source_files))]
    /\ source_files' = Tail(source_files)
    /\ calls' = IF Tail(source_files) = <<>> THEN [calls EXCEPT ![dir] = @ + 1] ELSE calls
    /\ UNCHANGED <<pc, outcome, project, dirs_to_jekyllify, dir, runs, orig, start, after, tabs, written, stem, label>>

\* the listing, had it been taken before the files were renamed
TabSourceFilesBeforeRename(d) ==
    get_tab_source_files([d EXCEPT !.files = {[name |-> f.orig, orig |-> f.orig] : f \in @}])

\* the files generate_tabs_yaml lists in folder d
TabSourceFiles(d) == get_tab_source_files(d)

\* the rest of jekyllify: build the front matter, rewrite index.md
WriteIndex ==
    /\ pc = "quarantine"
    /\ source_files = <<>>
    /\ \E files \in TabSourceFiles(world[dir]) :
       \E ids \in [1..Len(files) -> get_random_string(IdLen)] :
          LET entries == TabEntries(files, ids)
              front_matter == FrontMatter(dir, world[dir], entries)
              content == Translate(world[dir].index.bytes)
          IN  /\ world' = [world EXCEPT ![dir].index.bytes = OverwriteFromStart(@, front_matter \o content)]
              /\ tabs' = [tabs EXCEPT ![dir] = entries]
    /\ after' = IF written[dir] = 0 THEN [after EXCEPT ![dir] = world'[dir]] ELSE after
    /\ written' = IF written[dir] = 0 THEN [written EXCEPT ![dir] = runs] ELSE written
    /\ pc' = "loop"
    /\ dir' = <<>>
    /\ UNCHANGED <<outcome, project, dirs_to_jekyllify, source_files, runs, orig, start, calls, stem, label>>

\* the for loop of __main__ is through
Finish ==
    /\ pc = "loop"
    /\ dirs_to_jekyllify = <<>>
    /\ pc' = "idle"
    /\ outcome' = "completed"
    /\ UNCHANGED <<world, project, dirs_to_jekyllify, dir, source_files, runs, orig, start, after, tabs, calls, written, stem, label>>

\* the process is killed before a write to index.md has begun
Interrupt ==
    /\ pc \in {"loop", "quarantine"}
    /\ pc' = "idle"
    /\ outcome' = "interrupted"
    /\ dirs_to_jekyllify' = <<>>
    /\ dir' = <<>>
    /\ source_files' = <<>>
    /\ UNCHANGED <<world, project, runs, orig, start, after, tabs, calls, written, stem, label>>

Next ==
    \/ \E p \in {NoProject} \cup {Project(n) : n \in DOMAIN world \cup {Missing}} : Start(p)
    \/ Jekyllify
    \/ RenameNext
    \/ WriteIndex
    \/ Finish
    \/ Interrupt

Spec == Init /\ [][Next]_vars

(***************************************************************************)
(* The label deriver on its own: generate_label_from_filename applied to   *)
(* every stem of up to MaxStemLen characters, and to the docstring's       *)
(* example.                                                                *)
(***************************************************************************)
StemChars == {"0", "3", "_", "-", "a", "b"}
DocExample == <<"0","3","_","c","o","d","e","-","a","n","d","_","d","a","t","a">>
StemInputs == {DocExample} \cup UNION {[1..k -> StemChars] : k \in 1..MaxStemLen}

InitLabel ==
    /\ stem \in StemInputs
    /\ label = <<>>
    /\ pc = "label"
    /\ world = <<>>
    /\ outcome = "none"
    /\ project = NoProject
    /\ dirs_to_jekyllify = <<>>
    /\ dir = <<>>
    /\ source_files = <<>>
    /\ runs = 0
    /\ orig = <<>>
    /\ start = <<>>
    /\ after = <<>>
    /\ tabs = <<>>
    /\ calls = <<>>
    /\ written = <<>>

DeriveLabel ==
    /\ pc = "label"
    /\ pc' = "labelled"
    /\ label' = generate_label_from_filename(stem)
    /\ UNCHANGED <<world, outcome, project, dirs_to_jekyllify, dir, source_files, runs,
                   orig, start, after, tabs, calls, written, stem>>

NextLabel == DeriveLabel

SpecLabel == InitLabel /\ [][NextLabel]_vars

(***************************************************************************)
(* Vocabulary of the properties.                                           *)
(***************************************************************************)
Folders == DOMAIN world

\* index.md of folder d as the script reads it
IndexText(d) == Translate(d.index.bytes)

\* A text that begins with a metadata block: its first line is "---" and a
\* later "---" is followed by a newline.
BeginsWithMetadataBlock(text) ==
    /\ Len(text) >= 4
    /\ text[1] = "-" /\ text[2] = "-" /\ text[3] = "-" /\ text[4] = "\n"
    /\ \E i \in 5..Len(text) :
          /\ i + 3 <= Len(text)
          /\ text[i] = "-" /\ text[i + 1] = "-" /\ text[i + 2] = "-" /\ text[i + 3] = "\n"

\* the auxiliary files of folder d: every .md/.html entry but the index documents
Auxiliary(d) == {n \in Names(d) : n.stem # IndexStem}

\* the run in progress, or the last one, was in all-directories mode
AllMode == runs > 0 /\ ~project.given
\* it named folder n
NamedMode(n) == runs > 0 /\ project = Project(n)

MissingRequiredFile == {IndexMissing, AuthorsMissing}

(***************************************************************************)
(* C1                                                                      *)
(***************************************************************************)
\* C1: once jekyllify has completed on a folder, every later moment, of the same
\* run or of a later one, in named or in all-directories mode, finds the folder
\* exactly as jekyllify left it: can_process_dir returns False for it (without
\* raising), jekyllify is not called on it again, no file of it is renamed and
\* its index.md is not rewritten.
C1_PipelineIdempotent ==
    \A n \in Folders :
        written[n] > 0 =>
            /\ world[n] = after[n]
            /\ can_process_dir(world[n], TRUE) = "False"
            /\ can_process_dir(world[n], FALSE) = "False"
            /\ dir # n
            /\ \A i \in 1..Len(dirs_to_jekyllify) : dirs_to_jekyllify[i] # n

\* a second run, over a folder the first run processed, has completed
C1_Witness ==
    \E n \in Folders :
        /\ written[n] = 1
        /\ runs = 2
        /\ outcome = "completed"
        /\ \/ NamedMode(n)
           \/ AllMode /\ n[1] # "_"

(***************************************************************************)
(* C2                                                                      *)
(***************************************************************************)
\* C2 as stated: a run that names an existing folder without authors.txt ends
\* with the FileNotFoundError of a missing required file, whatever its index.md.
C2_AsStated ==
    \A n \in Folders :
        NamedMode(n) /\ ~world[n].authors.exists => outcome \in MissingRequiredFile

\* C2, amended: a run that names an existing folder without authors.txt, whose
\* index.md is missing or does not begin with a metadata block, ends with the
\* FileNotFoundError of a missing required file and changes nothing.
C2_MissingAuthorsRaises ==
    \A n \in Folders :
        (/\ NamedMode(n)
         /\ ~world[n].authors.exists
         /\ ~(start[n].index.exists /\ BeginsWithMetadataBlock(IndexText(start[n]))))
        => /\ outcome \in MissingRequiredFile
           /\ pc = "idle"
           /\ world = start

\* such a run, on a folder with an unprocessed index.md, raised for authors.txt
C2_Witness ==
    \E n \in Folders :
        /\ NamedMode(n)
        /\ ~world[n].authors.exists
        /\ world[n].index.exists
        /\ outcome = AuthorsMissing

(***************************************************************************)
(* C3                                                                      *)
(***************************************************************************)
\* C3: a folder whose index.md begins with a metadata block is excluded
\* silently: can_process_dir returns False for it with raise_exception True and
\* False, no run calls jekyllify on it, renames a file of it or rewrites its
\* index.md.
C3_AlreadyProcessedExcluded ==
    \A n \in Folders :
        (orig[n].index.exists /\ BeginsWithMetadataBlock(IndexText(orig[n])))
        => /\ can_process_dir(world[n], TRUE) = "False"
           /\ can_process_dir(world[n], FALSE) = "False"
           /\ world[n] = orig[n]
           /\ dir # n
           /\ written[n] = 0
           /\ (NamedMode(n) => outcome \in {"running", "completed", "interrupted"})

\* a run that named such a folder, which has no authors.txt either, completed
C3_Witness ==
    \E n \in Folders :
        /\ orig[n].index.exists
        /\ BeginsWithMetadataBlock(IndexText(orig[n]))
        /\ ~orig[n].authors.exists
        /\ NamedMode(n)
        /\ outcome = "completed"

(***************************************************************************)
(* C4                                                                      *)
(***************************************************************************)
\* the folders under the projects root that pass can_process_dir
Eligible(w) == {n \in DOMAIN w : can_process_dir(w[n], FALSE) = "True"}

\* those of them get_project_dirs lists in all-directories mode
EligibleInAllMode(w) == {n \in Eligible(w) : n[1] # "_"}

C5_AsStated ==
    \A n \in Folders :
        written[n] > 0 =>
            world[n].index.bytes = FrontMatter(n, world[n], tabs[n]) \o orig[n].index.bytes

(***************************************************************************)
(* C6                                                                      *)
(***************************************************************************)
\* C6: after jekyllify completes on a folder, the source of every tab entry
\* written names a file that exists in the folder, under its underscore-prefixed
\* name, and every auxiliary file of the folder is the source of exactly one
\* tab entry.
C6_TabSourcesExist ==
    \A n \in Folders :
        written[n] > 0 =>
            /\ \A i \in 1..Len(tabs[n]) :
                  \E f \in Auxiliary(world[n]) :
                      FileName(f) = tabs[n][i].source /\ f.stem[1] = "_"
            /\ \A f \in Auxiliary(world[n]) :
                  Cardinality({i \in 1..Len(tabs[n]) : tabs[n][i].source = FileName(f)}) = 1

\* jekyllify completed on a folder where it renamed a file, which a tab names
C6_Witness ==
    \E n \in Folders :
        /\ written[n] > 0
        /\ \E f \in world[n].files :
              /\ f.name # f.orig
              /\ \E i \in 1..Len(tabs[n]) : tabs[n][i].source = FileName(f.name)

(***************************************************************************)
(* C7                                                                      *)
(***************************************************************************)
\* C7 as stated: the number of tab entries jekyllify writes for a folder is the
\* number of its .md/.html files, other than index.md and index.html, at the
\* start of the run.
C7_AsStated ==
    \A n \in Folders :
        written[n] > 0 /\ written[n] = runs =>
            Len(tabs[n]) = Cardinality(Auxiliary(start[n]))

(***************************************************************************)
(* C8                                                                      *)
(***************************************************************************)
\* every file has the name it had initially, or that name with one underscore
\* put before it, and then only when it began with none
AtMostOneUnderscoreGained(d) ==
    \A f \in d.files :
        \/ f.name = f.orig
        \/ /\ f.name = Name(<<"_">> \o f.orig.stem, f.orig.ext)
           /\ f.orig.stem[1] # "_"

\* C8: no step gives a filename more than one underscore it did not have, and
\* once a call of prepend_underscores_to_tab_sources on a folder has completed,
\* every auxiliary stem begins with an underscore and no later step (a second
\* call) changes the set of filenames.
C8_QuarantineIdempotent ==
    [][\A n \in Folders :
          /\ AtMostOneUnderscoreGained(world'[n])
          /\ calls[n] >= 1 =>
                /\ Names(world'[n]) = Names(world[n])
                /\ \A f \in Auxiliary(world[n]) : f.stem[1] = "_"]_vars

\* a second call has completed on a folder where the first one renamed a file
C8_Witness ==
    \E n \in Folders :
        /\ calls[n] = 2
        /\ \E f \in world[n].files : f.name # f.orig

(***************************************************************************)
(* C9                                                                      *)
(***************************************************************************)
Letters == {Lower[i] : i \in 1..Len(Lower)}
AllIn(s, S) == \A i \in 1..Len(s) : s[i] \in S

\* the parts of a stem between its separators
StemParts(s) == SplitOn(ReplaceChar(s, "_", "-"), "-")

\* a leading run of digits, a separator, then words separated by single separators
IsOrderedStem(s) ==
    LET parts == StemParts(s)
    IN  /\ Len(parts) >= 2
        /\ parts[1] # <<>> /\ AllIn(parts[1], Digits)
        /\ \A i \in 2..Len(parts) : parts[i] # <<>> /\ AllIn(parts[i], Letters)

Quarantined(n) ==
    IF n.stem = IndexStem \/ n.stem[1] = "_" THEN n ELSE Name(<<"_">> \o n.stem, n.ext)

\* the file of folder d that an uninterrupted run lets another file replace
Replaced(d, f) ==
    \E g \in d.files : g.name # f.name /\ Quarantined(g.name) = f.name

\* the files an uninterrupted run leaves in folder d
QuarantinedFiles(d) ==
    {[name |-> Quarantined(f.name), orig |-> f.orig] : f \in {g \in d.files : ~Replaced(d, g)}}

\* type, source and label of a tab entry
TabOf(n) == [type |-> n.ext, source |-> FileName(n), label |-> generate_label_from_filename(n.stem)]

=============================================================================
